---- MODULE Spec2Model ----
(***************************************************************************)
(* Demo rate limiter and response gateway of the chat API route            *)
(* (frontend/src/app/api/chat/route.ts).                                   *)
(*                                                                         *)
(* store    : rateLimitStore, the in-memory Map ip -> {count, resetTime}.  *)
(*            A Map is a function whose DOMAIN is the set of its keys.     *)
(* now      : the value Date.now() returns, in milliseconds counted from   *)
(*            the start of the process; it never decreases.                *)
(* apiKey   : process.env.GEMINI_API_KEY, << >> when it is not set.        *)
(* handlers : the bag of POST invocations in flight, each at one of its     *)
(*            await points with the locals it holds there.                 *)
(* last     : what the quota code run by the step just taken returned (the *)
(*            result of checkRateLimit or the body of the GET response);   *)
(*            for a helper function taken alone, its call and its result.  *)
(* resp     : the POST response the step just taken sent, << >> if none.   *)
(* admitted : for each caller, the instant of the first admitted request   *)
(*            of the 24 hours now running and the number of requests       *)
(*            admitted in them (kept by the model, not by the program).    *)
(* posts    : the number of POST requests received so far (kept by the     *)
(*            model, not by the program).                                  *)
(* chat     : the state of the DemoChatInterface component in one browser  *)
(*            (components/DemoChatInterface.tsx) and its requests under    *)
(*            way.                                                         *)
(* auth     : the state of the AuthProvider component in one browser       *)
(*            (contexts/AuthContext.tsx) and its callbacks under way.      *)
(***************************************************************************)
EXTENDS Integers, Sequences, FiniteSets, Bags, TLC

VARIABLES store, now, last, apiKey, handlers, resp, admitted, posts, chat, auth

vars == <<store, now, last, apiKey, handlers, resp, admitted, posts, chat, auth>>
postVars == <<apiKey, handlers, resp, admitted, posts>>
serverVars == <<store, now, last, postVars>>
clientVars == <<chat, auth>>

(* ------------------------------ bounds -------------------------------- *)

\* The clock is observed at process start and one window later, each plus at
\* most MaxSkew milliseconds.
MaxSkew == 1
\* POST invocations in flight at the same time.
MaxInFlight == 2
\* POST requests received in one run of the route handlers.
MaxPosts == 2
\* The route handlers are observed from the states in which a caller has at
\* most Headroom requests of the running window left.
Headroom == 1
\* Entries of the x-forwarded-for chains getClientIP is applied to.
MaxChain == 2
\* Fragments the short inputs of sanitizeInput are put together from.
MaxFragments == 3
\* Messages the user sends in the demo chat.
MaxSends == 2
\* Auth state changes delivered to the callback of AuthProvider.
MaxEvents == 3

(* ------------------------- program constants -------------------------- *)

dailyLimit == 50
WINDOW_MS == 24 * 60 * 60 * 1000

\* Caller identities as getClientIP returns them.
Callers == {"10.0.0.1", "unknown"}

MaxNow == WINDOW_MS + MaxSkew
\* The clock advances by a millisecond or by a whole window.
TickSteps == {1, WINDOW_MS}

(* ------------------------------ requests ----------------------------- *)

\* An optional header value is << >> when the header is absent and <<v>> when
\* it is present with value v.  The x-forwarded-for header is given by the list
\* forwarded.split(',') of its comma-separated entries, which determines the
\* header text and is never empty for a header that is present.
HeaderSets ==
    { [forwarded |-> << >>,                       realIP |-> << >>],
      [forwarded |-> <<"10.0.0.1", "10.0.0.9">>, realIP |-> << >>],
      [forwarded |-> <<"">>,                      realIP |-> <<"10.0.0.1">>] }

\* JavaScript's a || b on strings: b when a is null, undefined or "".
Falsy(opt) == opt = << >> \/ opt = <<"">>

\* No sentinel: the empty string for a request without the two headers.
getClientIP_blank(headers) ==
    IF headers.forwarded # << >> /\ headers.forwarded[1] # ""
    THEN headers.forwarded[1]
    ELSE IF ~Falsy(headers.realIP) THEN headers.realIP[1]
    ELSE ""

\* The secondary header consulted first.
getClientIP_realFirst(headers) ==
    IF ~Falsy(headers.realIP) THEN headers.realIP[1]
    ELSE IF headers.forwarded # << >> /\ headers.forwarded[1] # ""
    THEN headers.forwarded[1]
    ELSE "unknown"

\* const ip = forwarded?.split(',')[0] || realIP || 'unknown'
getClientIP(headers) ==
    LET first == IF headers.forwarded = << >> THEN << >>
                 ELSE <<headers.forwarded[1]>> IN
    IF ~Falsy(first) THEN first[1]
    ELSE IF ~Falsy(headers.realIP) THEN headers.realIP[1]
    ELSE "unknown"

\* The values an entry of x-forwarded-for, or x-real-ip, can have: empty or an
\* address.
HeaderEntries == {"", "10.0.0.1", "10.0.0.2"}

\* The chains of 1 to n entries.
RECURSIVE Chains(_)
Chains(n) ==
    IF n = 1 THEN {<<e>> : e \in HeaderEntries}
    ELSE Chains(n - 1) \cup {Append(c, e) : c \in Chains(n - 1), e \in HeaderEntries}

\* Every combination of the two headers absent, present and empty, present
\* with an address, the forwarded chain with up to MaxChain entries.
AllHeaderSets ==
    [forwarded : {<< >>} \cup Chains(MaxChain),
     realIP    : {<< >>} \cup {<<e>> : e \in HeaderEntries}]

(* ------------------------------ the Map ------------------------------- *)

\* rateLimitStore.set(key, value)
MapSet(m, key, value) ==
    [k \in DOMAIN m \cup {key} |-> IF k = key THEN value ELSE m[k]]

\* rateLimitStore.get(key), as an optional value
MapGet(m, key) == IF key \in DOMAIN m THEN <<m[key]>> ELSE << >>

\* No sweep.
sweep_none(m, t) == m

\* The sweep with the boundary instant counted as expired.
sweep_atBoundary(m, t) ==
    [k \in {x \in DOMAIN m : ~(t >= m[x].resetTime)} |-> m[k]]

\* for (const [key, value] of rateLimitStore.entries())
\*     if (now > value.resetTime) rateLimitStore.delete(key)
sweep(m, t) ==
    [k \in {x \in DOMAIN m : ~(t > m[x].resetTime)} |-> m[k]]

(* --------------------------- checkRateLimit --------------------------- *)

\* The first request of a caller clearing the records of the others.
FirstRequest_alone(swept, ip, t) ==
    [store     |-> [k \in {ip} |-> [count |-> 1, resetTime |-> t + WINDOW_MS]],
     allowed   |-> TRUE,
     remaining |-> dailyLimit - 1]

\* The caller has no record, or an expired one: a new window opens.
FirstRequest(swept, ip, t) ==
    [store     |-> MapSet(swept, ip, [count |-> 1, resetTime |-> t + WINDOW_MS]),
     allowed   |-> TRUE,
     remaining |-> dailyLimit - 1]

\* The increment moving the end of the window on.
Increment_extends(swept, ip) ==
    LET userLimit == [swept[ip] EXCEPT !.count = @ + 1, !.resetTime = @ + 1] IN
    [store     |-> MapSet(swept, ip, userLimit),
     allowed   |-> TRUE,
     remaining |-> dailyLimit - userLimit.count]

\* The increment by two.
Increment_twice(swept, ip) ==
    LET userLimit == [swept[ip] EXCEPT !.count = @ + 2] IN
    [store     |-> MapSet(swept, ip, userLimit),
     allowed   |-> TRUE,
     remaining |-> dailyLimit - userLimit.count]

\* The increment made on a copy of the record that is never stored.
Increment_onCopy(swept, ip) ==
    LET userLimit == [swept[ip] EXCEPT !.count = @ + 1] IN
    [store     |-> swept,
     allowed   |-> TRUE,
     remaining |-> dailyLimit - userLimit.count]

Increment(swept, ip) ==
    LET userLimit == [swept[ip] EXCEPT !.count = @ + 1] IN
    [store     |-> MapSet(swept, ip, userLimit),
     allowed   |-> TRUE,
     remaining |-> dailyLimit - userLimit.count]

\* checkRateLimit with the limit test written count > dailyLimit.
checkRateLimit_offByOne(m, ip, t) ==
    LET swept == sweep(m, t) IN
    IF ip \notin DOMAIN swept THEN FirstRequest(swept, ip, t)
    ELSE IF t > swept[ip].resetTime THEN FirstRequest(swept, ip, t)
    ELSE IF swept[ip].count > dailyLimit
    THEN [store |-> swept, allowed |-> FALSE, remaining |-> 0]
    ELSE Increment(swept, ip)

\* checkRateLimit counting a rejected request as well.
checkRateLimit_countsRejected(m, ip, t) ==
    LET swept == sweep(m, t) IN
    IF ip \notin DOMAIN swept THEN FirstRequest(swept, ip, t)
    ELSE IF t > swept[ip].resetTime THEN FirstRequest(swept, ip, t)
    ELSE IF swept[ip].count >= dailyLimit
    THEN [store |-> Increment(swept, ip).store, allowed |-> FALSE, remaining |-> 0]
    ELSE Increment(swept, ip)

\* checkRateLimit returning the remaining quota computed before the increment.
checkRateLimit_staleRemaining(m, ip, t) ==
    LET swept == sweep(m, t) IN
    IF ip \notin DOMAIN swept THEN FirstRequest(swept, ip, t)
    ELSE IF t > swept[ip].resetTime THEN FirstRequest(swept, ip, t)
    ELSE IF swept[ip].count >= dailyLimit
    THEN [store |-> swept, allowed |-> FALSE, remaining |-> 0]
    ELSE [Increment(swept, ip) EXCEPT !.remaining = dailyLimit - swept[ip].count]

\* checkRateLimit carrying an expired record's count into the new window.
checkRateLimit_keepsCount(m, ip, t) ==
    IF ip \in DOMAIN m /\ t > m[ip].resetTime /\ m[ip].count >= dailyLimit
    THEN [store |-> m, allowed |-> FALSE, remaining |-> 0]
    ELSE LET swept == sweep(m, t) IN
         IF ip \notin DOMAIN swept THEN FirstRequest(swept, ip, t)
         ELSE IF swept[ip].count >= dailyLimit
         THEN [store |-> swept, allowed |-> FALSE, remaining |-> 0]
         ELSE Increment(swept, ip)

\* checkRateLimit(ip) run at time t on the Map m: the Map it leaves and the
\* {allowed, remaining} it returns.
checkRateLimit(m, ip, t) ==
    LET swept == sweep(m, t) IN
    LET userLimit == MapGet(swept, ip) IN
    IF userLimit = << >>
    THEN FirstRequest(swept, ip, t)
    ELSE IF t > userLimit[1].resetTime
    THEN FirstRequest(swept, ip, t)
    ELSE IF userLimit[1].count >= dailyLimit
    THEN [store     |-> swept,
          allowed   |-> FALSE,
          remaining |-> 0]
    ELSE Increment(swept, ip)

(* --------------------------------- GET -------------------------------- *)

Max(a, b) == IF a >= b THEN a ELSE b

\* The GET handler consuming one unit of the caller's quota.
getStatus_consumes(m, ip, t) ==
    LET r == checkRateLimit(m, ip, t) IN
    [store     |-> r.store,
     remaining |-> r.remaining,
     resetTime |-> r.store[ip].resetTime]

\* The GET handler without its sweep.
getStatus_noSweep(m, ip, t) ==
    LET userLimit == MapGet(m, ip) IN
    IF userLimit = << >> \/ t > userLimit[1].resetTime
    THEN [store |-> m, remaining |-> dailyLimit, resetTime |-> t + WINDOW_MS]
    ELSE [store     |-> m,
          remaining |-> Max(0, dailyLimit - userLimit[1].count),
          resetTime |-> userLimit[1].resetTime]

\* The GET handler reporting the quota left after the next request.
getStatus_afterNext(m, ip, t) ==
    LET swept == sweep(m, t) IN
    LET userLimit == MapGet(swept, ip) IN
    IF userLimit = << >> \/ t > userLimit[1].resetTime
    THEN [store |-> swept, remaining |-> dailyLimit - 1, resetTime |-> t + WINDOW_MS]
    ELSE [store     |-> swept,
          remaining |-> Max(0, dailyLimit - userLimit[1].count),
          resetTime |-> userLimit[1].resetTime]

\* The try block of GET run at time t for caller ip on the Map m: the Map it
\* leaves and the {remaining, resetTime} body of its response.  Nothing in the
\* block throws, so the catch branch (status 500) is never taken.
getStatus(m, ip, t) ==
    LET swept == sweep(m, t) IN
    LET userLimit == MapGet(swept, ip) IN
    IF userLimit = << >> \/ t > userLimit[1].resetTime
    THEN [store     |-> swept,
          remaining |-> dailyLimit,
          resetTime |-> t + WINDOW_MS]
    ELSE [store     |-> swept,
          remaining |-> Max(0, dailyLimit - userLimit[1].count),
          resetTime |-> userLimit[1].resetTime]

(* ---------------------------- sanitizeInput -------------------------- *)

\* A string is the sequence of its characters.
Str_hi == <<"h", "i">>
Str_script == <<"<", "s", "c", "r", "i", "p", "t", ">",
                "<", "/", "s", "c", "r", "i", "p", "t", ">">>

MaxMessageLength == 1000

WhiteSpace == {" ", "\t", "\n", "\r"}
LowerLetters == {"a", "b", "c", "d", "e", "f", "g", "h", "i", "j", "k", "l", "m",
                 "n", "o", "p", "q", "r", "s", "t", "u", "v", "w", "x", "y", "z"}
UpperLetters == {"A", "B", "C", "D", "E", "F", "G", "H", "I", "J", "K", "L", "M",
                 "N", "O", "P", "Q", "R", "S", "T", "U", "V", "W", "X", "Y", "Z"}
Digits == {"0", "1", "2", "3", "4", "5", "6", "7", "8", "9"}
\* \w of the regular expression
WordChars == LowerLetters \cup UpperLetters \cup Digits \cup {"_"}

\* Case folding of the i flag, on the letters the pattern holds.
Lower(c) ==
    CASE c = "S" -> "s" [] c = "C" -> "c" [] c = "R" -> "r"
      [] c = "I" -> "i" [] c = "P" -> "p" [] c = "T" -> "t"
      [] OTHER -> c

\* A trim that takes one leading white space character off.
trim_one(s) == IF s # << >> /\ s[1] \in WhiteSpace THEN Tail(s) ELSE s

\* input.trim()
trim(s) ==
    LET keep == {i \in 1..Len(s) : s[i] \notin WhiteSpace} IN
    IF keep = {} THEN << >>
    ELSE SubSeq(s, CHOOSE i \in keep : \A j \in keep : i <= j,
                   CHOOSE i \in keep : \A j \in keep : i >= j)

\* The literal pat matches s at position i, ignoring case.
MatchAt(s, i, pat) ==
    /\ i + Len(pat) - 1 <= Len(s)
    /\ \A j \in 1..Len(pat) : Lower(s[i + j - 1]) = pat[j]

OpenTag == <<"<", "s", "c", "r", "i", "p", "t">>
CloseTag == <<"<", "/", "s", "c", "r", "i", "p", "t", ">">>

\* <script\b matches at i: the tag name ends at a word boundary.
OpenAt(s, i) ==
    /\ MatchAt(s, i, OpenTag)
    /\ (i + Len(OpenTag) > Len(s) \/ s[i + Len(OpenTag)] \notin WordChars)

\* [^<]*(?:(?!<\/script>)<[^<]*)*<\/script> after an opening at i runs to the
\* first </script> that follows it; 0 when there is none.
CloseFrom(s, i) ==
    LET ends == {j \in (i + Len(OpenTag))..Len(s) : MatchAt(s, j, CloseTag)} IN
    IF ends = {} THEN 0 ELSE CHOOSE j \in ends : \A k \in ends : j <= k

\* The leftmost position from i on at which the whole pattern matches; 0 when
\* there is none.
NextMatch(s, i) ==
    LET starts == {k \in i..Len(s) : OpenAt(s, k) /\ CloseFrom(s, k) # 0} IN
    IF starts = {} THEN 0 ELSE CHOOSE k \in starts : \A j \in starts : k <= j

\* No fragment removed.
removeScripts_none(s, i) == SubSeq(s, i, Len(s))

\* .replace(/<script\b[^<]*(?:(?!<\/script>)<[^<]*)*<\/script>/gi, ''), from
\* position i on: the leftmost matches, none overlapping another.
RECURSIVE removeScripts(_, _)
removeScripts(s, i) ==
    LET k == NextMatch(s, i) IN
    IF k = 0 THEN SubSeq(s, i, Len(s))
    ELSE SubSeq(s, i, k - 1) \o removeScripts(s, CloseFrom(s, k) + Len(CloseTag))

\* .replace(/[<>]/g, '')
stripBrackets(s) == SelectSeq(s, LAMBDA c : c \notin {"<", ">"})

\* No truncation.
slice_whole(s, n) == s

\* .slice(0, 1000)
slice(s, n) == IF Len(s) <= n THEN s ELSE SubSeq(s, 1, n)

\* Each call of the chain works on the value the call before it returned.
sanitizeInput(input) ==
    CHOOSE out \in {slice(stripBrackets(removeScripts(trimmed, 1)), MaxMessageLength) :
                       trimmed \in {trim(input)}} : TRUE

\* The string of n characters c.
Repeat(c, n) == [i \in 1..n |-> c]

\* Pieces of input: white space, a letter, the brackets, an opening tag in
\* lower case, an unfinished one in upper case, a closing tag, and a letter
\* that continues a tag name.
Fragments ==
    { <<" ">>, <<"a">>, <<"<">>, <<">">>, <<"s">>,
      OpenTag \o <<">">>, <<"<", "S", "C", "R", "I", "P", "T">>, CloseTag }

\* The strings put together from at most n fragments.
RECURSIVE Pieced(_)
Pieced(n) ==
    IF n = 0 THEN {<< >>}
    ELSE Pieced(n - 1) \cup {s \o f : s \in Pieced(n - 1), f \in Fragments}

\* Inputs longer than the limit: twice the limit of one letter, the same
\* between brackets, and one with a blank at the limit; and one of just the
\* limit, blanks at both ends.
LongInputs ==
    { Repeat("a", 2 * MaxMessageLength),
      <<"<">> \o Repeat("a", 2 * MaxMessageLength) \o <<">">>,
      Repeat("a", MaxMessageLength - 1) \o <<" ", "b">>,
      <<" ">> \o Repeat("a", MaxMessageLength - 2) \o <<" ">> }

\* 'hi <script>alert(1)</script> there'
Str_example ==
    <<"h", "i", " ">> \o OpenTag \o <<">">>
       \o <<"a", "l", "e", "r", "t", "(", "1", ")">>
       \o CloseTag \o <<" ", "t", "h", "e", "r", "e">>

\* The strings sanitizeInput is applied to.
Inputs == Pieced(MaxFragments) \cup LongInputs \cup {Str_example}

(* -------------------------------- POST -------------------------------- *)

FALLBACK_RESPONSES ==
    << "Sorry, the demo is currently unavailable. Please try again later.",
       "I'm experiencing some technical difficulties right now. Please check back soon!",
       "The demo service is temporarily offline. Thank you for your patience.",
       "I'm currently unable to process your request. Please try again in a few moments.",
       "Our demo is taking a short break! Please come back later." >>

LimitMessage ==
    "You've reached the daily demo limit of 50 messages. Please try again tomorrow!"

\* What request.json() gives: a rejection for a body that is not JSON, else
\* the message field of the parsed body: missing, a number, the empty string,
\* a plain text, a script fragment.
Bodies ==
    { [json |-> FALSE],
      [json |-> TRUE, message |-> [type |-> "undefined"]],
      [json |-> TRUE, message |-> [type |-> "number"]],
      [json |-> TRUE, message |-> [type |-> "string", value |-> << >>]],
      [json |-> TRUE, message |-> [type |-> "string", value |-> Str_hi]],
      [json |-> TRUE, message |-> [type |-> "string", value |-> Str_script]] }

\* The header sets of the POST requests.
PostHeaderSets ==
    { [forwarded |-> << >>,                       realIP |-> << >>],
      [forwarded |-> <<"10.0.0.1", "10.0.0.9">>, realIP |-> << >>] }

\* What the upstream call comes back with: generated text, an empty text, an
\* exception.
UpstreamOutcomes ==
    { [kind |-> "text", text |-> "Happy to help!"],
      [kind |-> "text", text |-> ""],
      [kind |-> "throws"] }

\* !message || typeof message !== 'string'
InvalidMessage(message) ==
    \/ message.type # "string"
    \/ message.value = << >>

Json(status, body) == [status |-> status, body |-> body]

\* A response whose message is FALLBACK_RESPONSES[i].
Fallback(status, i, remaining) ==
    Json(status, [message   |-> FALLBACK_RESPONSES[i],
                  fallback  |-> TRUE,
                  remaining |-> remaining])

\* The outer catch block answering with a bare error.
InternalFault_bare == {Json(500, [error |-> "Internal server error"])}

\* The responses of the outer catch block: Math.random() picks the message.
InternalFault == {Fallback(500, i, 0) : i \in 1..Len(FALLBACK_RESPONSES)}

\* The rejection of a message answered by a 422.
BadRequest_422(error) == Json(422, [error |-> error])

\* The response to a request without a usable message.
BadRequest(error) == Json(400, [error |-> error])

\* The quota exhaustion answered by a 429.
LimitReached_429 ==
    Json(429, [message |-> LimitMessage, fallback |-> TRUE, remaining |-> 0])

\* The response to a request checkRateLimit did not allow.
LimitReached ==
    Json(200, [message |-> LimitMessage, fallback |-> TRUE, remaining |-> 0])

\* The responses without a credential reporting a spent quota.
NoCredential_spent(remaining) ==
    {Fallback(200, i, 0) : i \in 1..Len(FALLBACK_RESPONSES)}

\* The responses when GEMINI_API_KEY is not set.
NoCredential(remaining) ==
    {Fallback(200, i, remaining) : i \in 1..Len(FALLBACK_RESPONSES)}

\* The inner catch block answering with a gateway error.
UpstreamFailed_502(remaining) ==
    {Fallback(502, i, remaining) : i \in 1..Len(FALLBACK_RESPONSES)}

\* The responses of the inner catch block.
UpstreamFailed(remaining) ==
    {Fallback(200, i, remaining) : i \in 1..Len(FALLBACK_RESPONSES)}

Generated(text, remaining) ==
    Json(200, [message |-> text, fallback |-> FALSE, remaining |-> remaining])

\* The handler with the quota check moved in front of the validation.
PostSync_quotaFirst(m, headers, body, t, key) ==
    IF ~body.json
    THEN {[store |-> m, check |-> << >>, response |-> <<r>>] : r \in InternalFault}
    ELSE LET clientIP  == getClientIP(headers)
             rateLimit == checkRateLimit(m, clientIP, t)
             check     == <<[ip |-> clientIP, before |-> MapGet(m, clientIP),
                             allowed |-> rateLimit.allowed,
                             remaining |-> rateLimit.remaining]>> IN
    IF InvalidMessage(body.message)
    THEN {[store |-> rateLimit.store, check |-> check,
           response |-> <<BadRequest("Message is required and must be a string")>>]}
    ELSE LET sanitizedMessage == sanitizeInput(body.message.value) IN
    IF sanitizedMessage = << >>
    THEN {[store |-> rateLimit.store, check |-> check,
           response |-> <<BadRequest("Invalid message content")>>]}
    ELSE IF ~rateLimit.allowed
    THEN {[store |-> rateLimit.store, check |-> check, response |-> <<LimitReached>>]}
    ELSE IF key = << >>
    THEN {[store |-> rateLimit.store, check |-> check, response |-> <<r>>] :
             r \in NoCredential(rateLimit.remaining)}
    ELSE {[store |-> rateLimit.store, check |-> check, response |-> << >>,
           sanitizedMessage |-> sanitizedMessage]}

\* POST from the resumption after `await request.json()` to its next await
\* (the upstream call) or its return: the outcomes it can have, each with the
\* Map it leaves, the checkRateLimit call it made (<< >> if none) and the
\* response it sent (<< >> when it goes on to call the upstream model).
PostSync(m, headers, body, t, key) ==
    IF ~body.json
    THEN {[store |-> m, check |-> << >>, response |-> <<r>>] : r \in InternalFault}
    ELSE IF InvalidMessage(body.message)
    THEN {[store |-> m, check |-> << >>,
           response |-> <<BadRequest("Message is required and must be a string")>>]}
    ELSE LET sanitizedMessage == sanitizeInput(body.message.value) IN
    IF sanitizedMessage = << >>
    THEN {[store |-> m, check |-> << >>,
           response |-> <<BadRequest("Invalid message content")>>]}
    ELSE LET clientIP  == getClientIP(headers)
             rateLimit == checkRateLimit(m, clientIP, t)
             check     == <<[ip |-> clientIP, before |-> MapGet(m, clientIP),
                             allowed |-> rateLimit.allowed,
                             remaining |-> rateLimit.remaining]>> IN
    IF ~rateLimit.allowed
    THEN {[store |-> rateLimit.store, check |-> check, response |-> <<LimitReached>>]}
    ELSE IF key = << >>
    THEN {[store |-> rateLimit.store, check |-> check, response |-> <<r>>] :
             r \in NoCredential(rateLimit.remaining)}
    ELSE {[store |-> rateLimit.store, check |-> check, response |-> << >>,
           sanitizedMessage |-> sanitizedMessage]}

\* The resumption taking any text, the empty one too, for a success.
PostAfterUpstream_anyText(outcome, remaining) ==
    IF outcome.kind = "text"
    THEN {Generated(outcome.text, remaining)}
    ELSE UpstreamFailed(remaining)

\* POST from the resumption after the upstream call to its return.
PostAfterUpstream(outcome, remaining) ==
    IF outcome.kind = "text" /\ outcome.text # ""
    THEN {Generated(outcome.text, remaining)}
    ELSE UpstreamFailed(remaining)

\* The requests admitted to caller ip in the 24 hours that began with the
\* first of them, one more being admitted at t.
Admit(a, ip, t) ==
    IF ip \in DOMAIN a /\ t <= a[ip].start + WINDOW_MS
    THEN MapSet(a, ip, [a[ip] EXCEPT !.count = @ + 1])
    ELSE MapSet(a, ip, [start |-> t, count |-> 1])

(* ------------------------- DemoChatInterface ------------------------- *)

\* The text of the first message (the waving-hand sign left out).
WelcomeText ==
    "Hello! Welcome to Botsistant! I'm here to demonstrate our AI chatbot capabilities. Ask me anything about our platform, or just have a conversation!"

ConnectionTrouble ==
    "Sorry, I'm having trouble connecting right now. Please try again in a moment!"

ConnectionError == "Connection error. Please try again."

InvalidInput == "Please enter a valid message"

\* The remaining count shown when the status request fails.
DefaultRemaining == 50

\* An optional field is << >> when it is not set.
ChatInit ==
    [messages          |-> <<[text |-> WelcomeText, sender |-> "bot", fallback |-> << >>]>>,
     inputText         |-> << >>,
     isTyping          |-> FALSE,
     remainingMessages |-> 0,
     error             |-> << >>,
     statusPending     |-> TRUE]

\* What the user types: nothing, a blank, a plain text, brackets around a
\* blank, a script fragment.
ChatInputs == {<< >>, <<" ">>, Str_hi, <<"<", " ", "<">>, Str_script}

\* The remaining counts the server is taken to report.
RemainingValues == {0, dailyLimit - 1}

\* Every shape of response the POST handler sends.
ServerResponses ==
    UNION {{Generated("Happy to help!", r)} \cup UpstreamFailed(r) \cup NoCredential(r) :
             r \in RemainingValues}
    \cup {LimitReached}
    \cup {BadRequest("Message is required and must be a string"),
          BadRequest("Invalid message content")}
    \cup InternalFault

\* How the fetch of a send can settle: with a response, or rejected (the
\* network failed).
SendOutcomes ==
    {[kind |-> "response", response |-> r] : r \in ServerResponses}
    \cup {[kind |-> "network"]}

\* How the fetch of the status can settle: a 200 with a remaining count, the
\* 500 of the GET handler, a rejection.
StatusOutcomes ==
    {[kind |-> "response", status |-> 200, remaining |-> r] :
        r \in RemainingValues \cup {dailyLimit}}
    \cup {[kind |-> "response", status |-> 500, remaining |-> 0], [kind |-> "network"]}

\* response.ok
Ok(status) == status \in 200..299

\* The bot message showing what went wrong.
BotReply_raw(outcome) ==
    IF outcome.kind = "response" /\ Ok(outcome.response.status)
    THEN [text     |-> outcome.response.body.message,
          sender   |-> "bot",
          fallback |-> <<outcome.response.body.fallback>>]
    ELSE IF outcome.kind = "response"
    THEN [text |-> "HTTP error! status", sender |-> "bot", fallback |-> <<TRUE>>]
    ELSE [text |-> "Failed to fetch", sender |-> "bot", fallback |-> <<TRUE>>]

\* The bot message handleSendMessage appends: botMessage after a response
\* that is ok, errorMessage from the catch block otherwise.
BotReply(outcome) ==
    IF outcome.kind = "response" /\ Ok(outcome.response.status)
    THEN [text     |-> outcome.response.body.message,
          sender   |-> "bot",
          fallback |-> <<outcome.response.body.fallback>>]
    ELSE [text |-> ConnectionTrouble, sender |-> "bot", fallback |-> <<TRUE>>]

\* The number of messages of the user in the list.
Sent(messages) == Len(SelectSeq(messages, LAMBDA msg : msg.sender = "user"))

(* ---------------------------- AuthProvider ---------------------------- *)

\* The users of the authentication service; a session is given by its user.
Users == {"u1", "u2"}

\* session: null or a session of a user.
Sessions == {<< >>} \cup {<<u>> : u \in Users}

\* What supabase.auth.getSession() settles with.
GetSessionOutcomes ==
    {[kind |-> "session", session |-> s] : s \in Sessions} \cup {[kind |-> "throws"]}

\* data.client of the backend's answer to the sync of user u.
ClientOf(u) == [supabaseUserId |-> u]

\* The component after its first rendering and the effect it runs then:
\* getSession() has been called and waits for supabase.auth.getSession(), the
\* callback is subscribed.  calls is the bag of the asynchronous calls under
\* way, events the number of auth state changes so far.
AuthInit ==
    [user       |-> << >>,
     session    |-> << >>,
     clientData |-> << >>,
     loading    |-> TRUE,
     calls      |-> SetToBag({[fn |-> "getSession", pc |-> "getSession"]}),
     events     |-> 0]

(* ------------------------------ actions ------------------------------- *)

\* The quota code alone, as the handlers call it, from the empty Map the
\* module is loaded with.
Init ==
    /\ store = << >>
    /\ now = 0
    /\ last = [op |-> "none"]
    /\ handlers = EmptyBag
    /\ resp = << >>
    /\ admitted = << >>
    /\ posts = 0
    /\ apiKey = << >>
    /\ chat = ChatInit
    /\ auth = AuthInit

\* The Maps in which every caller has no record yet or has been admitted all
\* but at most Headroom times in a window opened at instant 0: each is the
\* Map after that many POST requests at instant 0.
UsedUp ==
    UNION { [ips -> (dailyLimit - Headroom)..dailyLimit] : ips \in SUBSET Callers }

\* The route handlers, with or without a credential in the environment.
InitPost ==
    /\ \E used \in UsedUp :
          /\ store = [ip \in DOMAIN used |->
                        [count |-> used[ip], resetTime |-> WINDOW_MS]]
          /\ admitted = [ip \in DOMAIN used |-> [start |-> 0, count |-> used[ip]]]
    /\ now = 0
    /\ last = [op |-> "none"]
    /\ handlers = EmptyBag
    /\ resp = << >>
    /\ posts = 0
    /\ apiKey \in {<< >>, <<"key">>}
    /\ chat = ChatInit
    /\ auth = AuthInit

\* Date.now() moves forward between two calls.
Tick ==
    \E d \in TickSteps :
        /\ now + d <= MaxNow
        /\ (now + d) % WINDOW_MS <= MaxSkew
        /\ now' = now + d
        /\ last' = [op |-> "tick"]
        /\ resp' = << >>
        /\ admitted' = [k \in {x \in DOMAIN admitted :
                                  now + d <= admitted[x].start + WINDOW_MS}
                          |-> admitted[k]]
        /\ UNCHANGED <<clientVars, store, apiKey, handlers, posts>>

\* One call of checkRateLimit(ip).  last.before is the caller's record as the
\* call found it, last.deleted the keys its sweep deleted.
CheckRateLimit(ip) ==
    LET r == checkRateLimit(store, ip, now) IN
    /\ store' = r.store
    /\ last' = [op |-> "check", ip |-> ip, before |-> MapGet(store, ip),
                allowed |-> r.allowed, remaining |-> r.remaining,
                deleted |-> DOMAIN store \ DOMAIN sweep(store, now)]
    /\ UNCHANGED <<clientVars, now, postVars>>

\* One GET request.
GET(headers) ==
    LET clientIP == getClientIP(headers) IN
    LET r == getStatus(store, clientIP, now) IN
    /\ store' = r.store
    /\ last' = [op |-> "get", ip |-> clientIP, before |-> MapGet(store, clientIP),
                remaining |-> r.remaining, resetTime |-> r.resetTime]
    /\ resp' = << >>
    /\ UNCHANGED <<clientVars, now, apiKey, handlers, admitted, posts>>

\* A POST request arrives and its handler runs to `await request.json()`.
PostReceive(headers, body) ==
    /\ posts < MaxPosts
    /\ BagCardinality(handlers) < MaxInFlight
    /\ posts' = posts + 1
    /\ handlers' = handlers (+) SetToBag({[pc |-> "json", headers |-> headers,
                                           body |-> body]})
    /\ last' = [op |-> "none"]
    /\ resp' = << >>
    /\ UNCHANGED <<clientVars, store, now, apiKey, admitted>>

\* request.json() settles for the invocation h and it runs on: validation,
\* sanitization, the quota check and the credential test, up to its return or
\* to `await model.generateContent(prompt)`.
PostAfterJson(h) ==
    /\ h.pc = "json"
    /\ \E out \in PostSync(store, h.headers, h.body, now, apiKey) :
          /\ store' = out.store
          /\ last' = IF out.check = << >> THEN [op |-> "none"]
                     ELSE [op |-> "check", ip |-> out.check[1].ip,
                           before |-> out.check[1].before,
                           allowed |-> out.check[1].allowed,
                           remaining |-> out.check[1].remaining]
          /\ admitted' = IF out.check # << >> /\ out.check[1].allowed
                         THEN Admit(admitted, out.check[1].ip, now)
                         ELSE admitted
          /\ IF out.response = << >>
             THEN /\ handlers' = (handlers (-) SetToBag({h})) (+) SetToBag({
                         [pc |-> "generate",
                          clientIP |-> out.check[1].ip,
                          rateLimit |-> [allowed |-> out.check[1].allowed,
                                         remaining |-> out.check[1].remaining],
                          sanitizedMessage |-> out.sanitizedMessage]})
                  /\ resp' = << >>
             ELSE /\ handlers' = handlers (-) SetToBag({h})
                  /\ resp' = <<[request |-> h, response |-> out.response[1]]>>
    /\ UNCHANGED <<clientVars, now, apiKey, posts>>

\* An invocation that answered a failed upstream call and went on waiting.
AfterUpstream_retries(b, h, r) ==
    IF r.body.fallback THEN b ELSE b (-) SetToBag({h})

\* The invocations in flight once the invocation h, resumed after its upstream
\* call, has returned the response r: each of the two paths it can take ends
\* in a return statement, none leads back to the call.
AfterUpstream(b, h, r) == b (-) SetToBag({h})

\* The upstream call of the invocation h settles with outcome (`await
\* model.generateContent(prompt)` and `await result.response`, which nothing of
\* this module runs between) and it returns.
PostUpstreamWith(h, outcome) ==
    /\ h.pc = "generate"
    /\ \E r \in PostAfterUpstream(outcome, h.rateLimit.remaining) :
          /\ resp' = <<[request |-> h, response |-> r]>>
          /\ handlers' = AfterUpstream(handlers, h, r)
    /\ last' = [op |-> "none"]
    /\ UNCHANGED <<clientVars, store, now, apiKey, admitted, posts>>

\* The upstream call of the invocation h settles, one way or another.
PostUpstream(h) ==
    \E outcome \in UpstreamOutcomes : PostUpstreamWith(h, outcome)

Next ==
    \/ Tick
    \/ \E ip \in Callers : CheckRateLimit(ip)
    \/ \E headers \in HeaderSets : GET(headers)

Spec == Init /\ [][Next]_vars

NextPost ==
    \/ Tick
    \/ \E headers \in PostHeaderSets : \E body \in Bodies : PostReceive(headers, body)
    \/ \E h \in BagToSet(handlers) : PostAfterJson(h)
    \/ \E h \in BagToSet(handlers) : PostUpstream(h)

SpecPost == InitPost /\ [][NextPost]_vars

\* The route handlers under the scheduling the runtime guarantees: the event
\* loop resumes every invocation whose await has settled, and the body of a
\* request that has arrived is read.  When, and whether, the upstream call
\* settles is up to the remote service: the handler passes no timeout or
\* abort signal and arms no timer, so no step of PostUpstream is guaranteed.
FairPost ==
    SpecPost /\ WF_vars(\E h \in BagToSet(handlers) : PostAfterJson(h))

\* The two helper functions on their own, each applied once to an argument
\* chosen at the start: last holds the call and then its result.
InitPure ==
    /\ last \in {[op |-> "call", fn |-> "sanitizeInput", input |-> s] : s \in Inputs}
              \cup {[op |-> "call", fn |-> "getClientIP", headers |-> h] :
                       h \in AllHeaderSets}
    /\ store = << >>
    /\ now = 0
    /\ handlers = EmptyBag
    /\ resp = << >>
    /\ admitted = << >>
    /\ posts = 0
    /\ apiKey = << >>
    /\ chat = ChatInit
    /\ auth = AuthInit

\* sanitizeInput(input) returns.
SanitizeInput ==
    /\ last.op = "call"
    /\ last.fn = "sanitizeInput"
    /\ last' = [op |-> "sanitize", input |-> last.input,
                output |-> sanitizeInput(last.input)]
    /\ UNCHANGED <<clientVars, store, now, postVars>>

\* getClientIP(request) returns.
GetClientIP ==
    /\ last.op = "call"
    /\ last.fn = "getClientIP"
    /\ last' = [op |-> "ip", headers |-> last.headers,
                ip |-> getClientIP(last.headers)]
    /\ UNCHANGED <<clientVars, store, now, postVars>>

\* sanitizeInput is applied to what it returned.
SanitizeAgain ==
    /\ last.op = "sanitize"
    /\ last' = [op |-> "resanitize", input |-> last.input, once |-> last.output,
                twice |-> sanitizeInput(last.output)]
    /\ UNCHANGED <<clientVars, store, now, postVars>>

NextPure == SanitizeInput \/ SanitizeAgain \/ GetClientIP

SpecPure == InitPure /\ [][NextPure]_vars

\* The status request made when the component mounts settles.
FetchRemainingSettles(outcome) ==
    /\ chat.statusPending
    /\ chat' = [chat EXCEPT
          !.statusPending = FALSE,
          !.remainingMessages =
              IF outcome.kind = "network" THEN DefaultRemaining
              ELSE IF Ok(outcome.status) THEN outcome.remaining
              ELSE @]
    /\ UNCHANGED <<serverVars, auth>>

\* The user changes the text of the input field, which is enabled.
TypeText(text) ==
    /\ ~chat.isTyping
    /\ chat.remainingMessages > 0
    /\ text # chat.inputText
    /\ chat' = [chat EXCEPT !.inputText = text]
    /\ UNCHANGED <<serverVars, auth>>

\* handleSendMessage up to `await fetch`.
HandleSendMessage ==
    /\ trim(chat.inputText) # << >>
    /\ ~chat.isTyping
    /\ Sent(chat.messages) < MaxSends
    /\ LET sanitizedInput == sanitizeInput(chat.inputText) IN
       chat' = IF sanitizedInput = << >>
               THEN [chat EXCEPT !.error = <<InvalidInput>>]
               ELSE [chat EXCEPT
                       !.messages = Append(@, [text |-> sanitizedInput,
                                               sender |-> "user",
                                               fallback |-> << >>]),
                       !.inputText = << >>,
                       !.isTyping = TRUE,
                       !.error = << >>]
    /\ UNCHANGED <<serverVars, auth>>

\* handleSendMessage from the settlement of its fetch to its end.
FetchSettles(outcome) ==
    /\ chat.isTyping
    /\ chat' = IF outcome.kind = "response" /\ Ok(outcome.response.status)
               THEN [chat EXCEPT
                       !.remainingMessages = outcome.response.body.remaining,
                       !.messages = Append(@, BotReply(outcome)),
                       !.isTyping = FALSE]
               ELSE [chat EXCEPT
                       !.messages = Append(@, BotReply(outcome)),
                       !.error = <<ConnectionError>>,
                       !.isTyping = FALSE]
    /\ UNCHANGED <<serverVars, auth>>

NextChat ==
    \/ \E outcome \in StatusOutcomes : FetchRemainingSettles(outcome)
    \/ \E text \in ChatInputs : TypeText(text)
    \/ HandleSendMessage
    \/ \E outcome \in SendOutcomes : FetchSettles(outcome)

\* The demo chat component in one browser, from its mounting on.
SpecChat == Init /\ [][NextChat]_vars

\* supabase.auth.getSession() settles for the call h of getSession, which
\* runs on to the fetch of syncUserWithBackend or to its end.
GetSessionSettles(h, outcome) ==
    /\ h.pc = "getSession"
    /\ auth' =
          IF outcome.kind = "throws"
          THEN [auth EXCEPT !.loading = FALSE, !.calls = @ (-) SetToBag({h})]
          ELSE IF outcome.session = << >>
          THEN [auth EXCEPT !.session = << >>, !.user = << >>, !.loading = FALSE,
                            !.calls = @ (-) SetToBag({h})]
          ELSE [auth EXCEPT !.session = outcome.session, !.user = outcome.session,
                            !.calls = (@ (-) SetToBag({h})) (+) SetToBag({
                                [fn |-> h.fn, pc |-> "fetch",
                                 user |-> outcome.session[1]]})]
    /\ UNCHANGED <<serverVars, chat>>

\* The callback given to onAuthStateChange is called with a session and runs
\* to the fetch of syncUserWithBackend or to its end.
AuthStateChange(session) ==
    /\ auth.events < MaxEvents
    /\ auth' =
          IF session = << >>
          THEN [auth EXCEPT !.session = << >>, !.user = << >>,
                            !.clientData = << >>, !.loading = FALSE,
                            !.events = @ + 1]
          ELSE [auth EXCEPT !.session = session, !.user = session,
                            !.events = @ + 1,
                            !.calls = @ (+) SetToBag({
                                [fn |-> "onAuthStateChange", pc |-> "fetch",
                                 user |-> session[1]]})]
    /\ UNCHANGED <<serverVars, chat>>

\* The fetch of syncUserWithBackend settles for the call h: on a response that
\* is ok the call goes on to `await response.json()`; otherwise
\* syncUserWithBackend returns null and its caller sets loading and ends.
SyncFetchSettles(h, outcome) ==
    /\ h.pc = "fetch"
    /\ auth' =
          IF outcome = "ok"
          THEN [auth EXCEPT !.calls = (@ (-) SetToBag({h})) (+) SetToBag({
                                [h EXCEPT !.pc = "json"]})]
          ELSE [auth EXCEPT !.loading = FALSE, !.calls = @ (-) SetToBag({h})]
    /\ UNCHANGED <<serverVars, chat>>

\* response.json() settles for the call h: setClientData(data.client), then
\* the caller sets loading and ends.
SyncJsonSettles(h, outcome) ==
    /\ h.pc = "json"
    /\ auth' =
          IF outcome = "ok"
          THEN [auth EXCEPT !.clientData = <<ClientOf(h.user)>>,
                            !.loading = FALSE,
                            !.calls = @ (-) SetToBag({h})]
          ELSE [auth EXCEPT !.loading = FALSE, !.calls = @ (-) SetToBag({h})]
    /\ UNCHANGED <<serverVars, chat>>

NextAuth ==
    \/ \E h \in BagToSet(auth.calls) : \E outcome \in GetSessionOutcomes :
          GetSessionSettles(h, outcome)
    \/ \E session \in Sessions : AuthStateChange(session)
    \/ \E h \in BagToSet(auth.calls) : \E outcome \in {"ok", "notOk", "throws"} :
          SyncFetchSettles(h, outcome)
    \/ \E h \in BagToSet(auth.calls) : \E outcome \in {"ok", "throws"} :
          SyncJsonSettles(h, outcome)

\* The AuthProvider component in one browser, from its mounting on.
SpecAuth == Init /\ [][NextAuth]_vars

(* ====================== claims about the quota ======================== *)

\* The step just taken is a checkRateLimit(ip) call resp. a GET for ip.
IsCheckStep(ip) == last'.op = "check" /\ last'.ip = ip /\ now' = now
IsGetStep(ip) == last'.op = "get" /\ last'.ip = ip /\ now' = now

\* The instants the clock can show from now on.
LaterTimes == {t \in {0, WINDOW_MS} \cup {d + s : d \in {0, WINDOW_MS}, s \in 1..MaxSkew} :
                  t >= now}

\* C1: every stored record's count lies in [0, dailyLimit].
C1_CountInRange ==
    \A k \in DOMAIN store : store[k].count \in 0..dailyLimit

C1_Witness ==
    \E k \in DOMAIN store : store[k].count = dailyLimit

\* C3 as stated: once a caller's count has reached the limit within the window,
\* a further checkRateLimit call returns allowed=false, remaining=0 and leaves
\* the whole store unchanged.
C3_HardStopStoreUnchanged ==
    [][\A ip \in Callers :
        (/\ ip \in DOMAIN store
         /\ store[ip].count = dailyLimit
         /\ now <= store[ip].resetTime
         /\ IsCheckStep(ip))
        => (/\ ~last'.allowed
            /\ last'.remaining = 0
            /\ store' = store)]_vars

\* C3 amended: such a call returns allowed=false, remaining=0, creates no
\* record and leaves the caller's record and every other unexpired record
\* unchanged; all it can remove is the expired records of other callers.
C3_HardStop ==
    [][\A ip \in Callers :
        (/\ ip \in DOMAIN store
         /\ store[ip].count = dailyLimit
         /\ now <= store[ip].resetTime
         /\ IsCheckStep(ip))
        => (/\ ~last'.allowed
            /\ last'.remaining = 0
            /\ DOMAIN store' \subseteq DOMAIN store
            /\ ip \in DOMAIN store' /\ store'[ip] = store[ip]
            /\ \A k \in DOMAIN store :
                  IF now > store[k].resetTime
                  THEN k \notin DOMAIN store'
                  ELSE k \in DOMAIN store' /\ store'[k] = store[k])]_vars

\* The 51st call of a window has just been rejected.
C3_Witness ==
    /\ last.op = "check"
    /\ ~last.allowed
    /\ last.before # << >>
    /\ last.before[1].count = dailyLimit
    /\ store[last.ip] = last.before[1]

\* C4: a caller without a record gets allowed=true, remaining=49 and the record
\* {count: 1, resetTime: now + 24h}; every further call within the window
\* below the limit adds exactly 1 to count, keeps resetTime and returns
\* remaining = 50 - count, one less than the call before it returned.
C4_MonotonicDecrement ==
    /\ []((last.op = "check" /\ last.before = << >>)
            => /\ last.allowed
               /\ last.remaining = dailyLimit - 1
               /\ store[last.ip] = [count |-> 1, resetTime |-> now + WINDOW_MS])
    /\ []((/\ last.op = "check"
           /\ last.before # << >>
           /\ now <= last.before[1].resetTime
           /\ last.before[1].count < dailyLimit)
            => /\ last.allowed
               /\ store[last.ip].count = last.before[1].count + 1
               /\ store[last.ip].resetTime = last.before[1].resetTime
               /\ last.remaining = dailyLimit - store[last.ip].count)
    /\ [][\A ip \in Callers :
           (/\ last.op = "check" /\ last.ip = ip
            /\ last.allowed /\ last.remaining > 0
            /\ IsCheckStep(ip))
           => last'.allowed /\ last'.remaining = last.remaining - 1]_vars

\* The 50th call of a window has just returned remaining = 0.
C4_Witness ==
    /\ last.op = "check"
    /\ last.allowed
    /\ last.remaining = 0
    /\ last.before # << >>
    /\ last.before[1].count = dailyLimit - 1

\* C5: a call that finds the caller's window expired behaves as a first call,
\* whatever the old count: record {count: 1, resetTime: now + 24h},
\* allowed=true, remaining=49.
C5_WindowReset ==
    (last.op = "check" /\ last.before # << >> /\ now > last.before[1].resetTime)
    => /\ last.allowed
       /\ last.remaining = dailyLimit - 1
       /\ store[last.ip] = [count |-> 1, resetTime |-> now + WINDOW_MS]

\* A caller who had used up the window is let in again after it expired.
C5_Witness ==
    /\ last.op = "check"
    /\ last.before # << >>
    /\ last.before[1].count = dailyLimit
    /\ now > last.before[1].resetTime
    /\ last.allowed

\* C6 as stated: with count at the limit, a call at now < resetTime is
\* rejected and a call at any now >= resetTime is no longer rejected.
C6_RejectedUntilResetInclusive ==
    (last.op = "check" /\ last.before # << >> /\ last.before[1].count = dailyLimit)
    => /\ (now < last.before[1].resetTime => ~last.allowed)
       /\ (now >= last.before[1].resetTime => last.allowed)

\* C6 amended: with count at the limit, a call at any now <= resetTime
\* (the instant resetTime included) is rejected, and a call at now > resetTime
\* is allowed.
C6_RejectedUntilAfterReset ==
    (last.op = "check" /\ last.before # << >> /\ last.before[1].count = dailyLimit)
    => /\ (now <= last.before[1].resetTime => ~last.allowed)
       /\ (now > last.before[1].resetTime => last.allowed)

\* A call made exactly at resetTime by a caller at the limit.
C6_Witness ==
    /\ last.op = "check"
    /\ last.before # << >>
    /\ last.before[1].count = dailyLimit
    /\ now = last.before[1].resetTime
    /\ ~last.allowed

\* C7: a GET by any caller changes neither the result nor the effect of the
\* next checkRateLimit call of any caller, at whatever later instant that call
\* is made.
C7_PeekKeepsNextResult ==
    [][(\E c \in Callers : IsGetStep(c))
        => \A ip \in Callers : \A t \in LaterTimes :
              checkRateLimit(store', ip, t) = checkRateLimit(store, ip, t)]_vars

\* A GET has just answered a caller who has quota left in a running window.
C7_Witness ==
    /\ last.op = "get"
    /\ last.ip \in DOMAIN store
    /\ store[last.ip].count < dailyLimit
    /\ last.remaining = dailyLimit - store[last.ip].count

\* C8 as stated: the store is identical before and after any GET.
C8_GetStoreUnchanged ==
    [][(\E c \in Callers : IsGetStep(c)) => store' = store]_vars

\* C8 amended: a GET creates no record and changes none; every unexpired
\* record is still there with the same count and resetTime, and exactly the
\* records whose window has expired (resetTime < now) are removed.
C8_GetOnlySweeps ==
    [][(\E c \in Callers : IsGetStep(c))
        => /\ DOMAIN store' \subseteq DOMAIN store
           /\ \A k \in DOMAIN store :
                 IF now > store[k].resetTime
                 THEN k \notin DOMAIN store'
                 ELSE k \in DOMAIN store' /\ store'[k] = store[k]]_vars

\* A GET has just removed its caller's expired record and kept another
\* caller's running one.
C8_Witness ==
    /\ last.op = "get"
    /\ last.before # << >>
    /\ now > last.before[1].resetTime
    /\ last.ip \notin DOMAIN store
    /\ store # << >>

\* C9: GET reports remaining = 50, resetTime = now + 24h for a caller without
\* a record or with an expired one, otherwise max(0, 50 - count) and the
\* stored resetTime; a checkRateLimit call of the same caller right after a GET
\* that reported r > 0 is allowed with remaining r - 1, and after a GET that
\* reported 0 it is rejected.
C9_GetReportsQuota ==
    /\ [](last.op = "get"
           => IF last.before = << >> \/ now > last.before[1].resetTime
              THEN last.remaining = dailyLimit /\ last.resetTime = now + WINDOW_MS
              ELSE /\ last.remaining = Max(0, dailyLimit - last.before[1].count)
                   /\ last.resetTime = last.before[1].resetTime)
    /\ [][\A ip \in Callers :
           (last.op = "get" /\ last.ip = ip /\ IsCheckStep(ip))
           => IF last.remaining > 0
              THEN last'.allowed /\ last'.remaining = last.remaining - 1
              ELSE ~last'.allowed]_vars

\* A GET has just reported 0 to a caller at the limit.
C9_Witness ==
    /\ last.op = "get"
    /\ last.remaining = 0
    /\ last.before # << >>
    /\ last.before[1].count = dailyLimit

(* ================== claims about the route handlers =================== *)

\* The caller's quota is used up and its window is still running.
Exhausted(ip) ==
    /\ ip \in DOMAIN store
    /\ store[ip].count >= dailyLimit
    /\ now <= store[ip].resetTime

\* The request of the invocation h carries a message that passes validation
\* and sanitization.
UsableMessage(h) ==
    /\ h.body.json
    /\ h.body.message.type = "string"
    /\ h.body.message.value # << >>
    /\ sanitizeInput(h.body.message.value) # << >>

\* C2: however the in-flight POST handlers interleave, every admitted request
\* has added exactly one to its caller's count, and no caller is admitted more
\* than dailyLimit times within one window.
C2_AtomicCheckAndIncrement ==
    \A ip \in DOMAIN admitted :
        /\ admitted[ip].count <= dailyLimit
        /\ ip \in DOMAIN store
        /\ store[ip].count = admitted[ip].count

\* A caller's last request of the window is still waiting for the upstream
\* model when a second request of the same caller is rejected.
C2_Witness ==
    /\ last.op = "check"
    /\ ~last.allowed
    /\ last.ip \in DOMAIN admitted
    /\ admitted[last.ip].count = dailyLimit
    /\ \E h \in BagToSet(handlers) :
          /\ h.pc = "generate"
          /\ h.clientIP = last.ip
          /\ h.rateLimit.remaining = 0

\* C10 as stated: every POST of a caller whose quota is exhausted is answered
\* 200 with the daily-limit message, fallback=true and remaining=0, and does
\* not call the upstream model.
C10_ExhaustedAlways200 ==
    [][\A h \in BagToSet(handlers) :
        (h.pc = "json" /\ Exhausted(getClientIP(h.headers)) /\ PostAfterJson(h))
        => /\ resp' = <<[request |-> h, response |->
                 Json(200, [message |-> LimitMessage, fallback |-> TRUE,
                            remaining |-> 0])]>>
           /\ handlers' = handlers (-) SetToBag({h})]_vars

\* C10 amended: every POST of a caller whose quota is exhausted that carries a
\* message passing validation and sanitization is answered 200 with the
\* daily-limit message, fallback=true and remaining=0, and does not call the
\* upstream model.
C10_ExhaustedDegrades ==
    [][\A h \in BagToSet(handlers) :
        (/\ h.pc = "json"
         /\ Exhausted(getClientIP(h.headers))
         /\ UsableMessage(h)
         /\ PostAfterJson(h))
        => /\ resp' = <<[request |-> h, response |->
                 Json(200, [message |-> LimitMessage, fallback |-> TRUE,
                            remaining |-> 0])]>>
           /\ handlers' = handlers (-) SetToBag({h})]_vars

\* A request of an exhausted caller has just been answered.
C10_Witness ==
    /\ last.op = "check"
    /\ ~last.allowed
    /\ last.before # << >>
    /\ last.before[1].count = dailyLimit
    /\ resp # << >>
    /\ resp[1].response.status = 200
    /\ resp[1].response.body.message = LimitMessage

\* The number of invocations in the bag b that wait for the upstream model.
Waiting(b) ==
    LET RECURSIVE sum(_)
        sum(S) == IF S = {} THEN 0
                  ELSE LET h == CHOOSE x \in S : TRUE IN
                       CopiesIn(h, b) + sum(S \ {h}) IN
    sum({h \in BagToSet(b) : h.pc = "generate"})

\* The upstream call came back with an exception or without text.
UpstreamFailure(outcome) == outcome.kind = "throws" \/ outcome.text = ""

\* C11: when the upstream call of a request throws or returns empty text, the
\* request is answered 200 with fallback=true, a message of FALLBACK_RESPONSES
\* and the remaining value checkRateLimit returned when the request consumed
\* its quota (the value the invocation took with it into the upstream call).
C11_UpstreamFailureDegrades ==
    [][/\ \A h \in BagToSet(handlers) : \A outcome \in UpstreamOutcomes :
            (h.pc = "generate" /\ UpstreamFailure(outcome) /\ PostUpstreamWith(h, outcome))
            => /\ resp' # << >>
               /\ resp'[1].request = h
               /\ resp'[1].response.status = 200
               /\ resp'[1].response.body.fallback = TRUE
               /\ \E i \in 1..Len(FALLBACK_RESPONSES) :
                     resp'[1].response.body.message = FALLBACK_RESPONSES[i]
               /\ resp'[1].response.body.remaining = h.rateLimit.remaining
       /\ \A h \in BagToSet(handlers') :
            (h.pc = "generate" /\ CopiesIn(h, handlers') > CopiesIn(h, handlers))
            => /\ last'.op = "check"
               /\ last'.allowed
               /\ h.rateLimit.remaining = last'.remaining]_vars

\* A failed upstream call has just been answered with the remaining value of
\* its own quota consumption, after a later request of the same caller has
\* moved the caller's count on.
C11_Witness ==
    /\ resp # << >>
    /\ resp[1].request.pc = "generate"
    /\ resp[1].response.status = 200
    /\ resp[1].response.body.fallback
    /\ resp[1].response.body.remaining = dailyLimit - 1
    /\ resp[1].request.clientIP \in DOMAIN store
    /\ store[resp[1].request.clientIP].count = 2

\* C12: every POST request is eventually answered even if the upstream model
\* never answers: whenever invocations wait for the upstream model, one of
\* them is eventually answered.
C12_EveryPostAnswered ==
    (Waiting(handlers) > 0) ~> (resp # << >> /\ resp[1].request.pc = "generate")

\* C13: with no credential configured, a POST that passes validation and is
\* allowed by the quota is answered 200 with fallback=true, a message of
\* FALLBACK_RESPONSES and the remaining value its checkRateLimit call
\* returned, and the upstream model is not called.
C13_NoCredentialDegrades ==
    [][\A h \in BagToSet(handlers) :
        (/\ h.pc = "json"
         /\ apiKey = << >>
         /\ UsableMessage(h)
         /\ checkRateLimit(store, getClientIP(h.headers), now).allowed
         /\ PostAfterJson(h))
        => /\ resp' # << >>
           /\ resp'[1].request = h
           /\ resp'[1].response.status = 200
           /\ resp'[1].response.body.fallback = TRUE
           /\ \E i \in 1..Len(FALLBACK_RESPONSES) :
                 resp'[1].response.body.message = FALLBACK_RESPONSES[i]
           /\ resp'[1].response.body.remaining =
                 checkRateLimit(store, getClientIP(h.headers), now).remaining
           /\ last'.op = "check"
           /\ resp'[1].response.body.remaining = last'.remaining
           /\ handlers' = handlers (-) SetToBag({h})
           /\ Waiting(handlers') = Waiting(handlers)]_vars

\* Without a credential, an allowed request has just been answered with the
\* remaining value of its quota consumption, which is not 0.
C13_Witness ==
    /\ apiKey = << >>
    /\ resp # << >>
    /\ resp[1].request.pc = "json"
    /\ last.op = "check"
    /\ last.allowed
    /\ last.remaining = dailyLimit - 1
    /\ resp[1].response.body.fallback
    /\ resp[1].response.body.remaining = dailyLimit - 1

\* C14: a POST is answered 400 with an {error} body exactly when its message
\* is absent, is not a string or sanitizes to the empty string; 500 exactly
\* when the handler hit a fault (reading the body threw); and 200 with a
\* {message, fallback, remaining} body in every other case.
C14_StatusCodes ==
    resp # << >> =>
        LET h == resp[1].request
            r == resp[1].response
            fault == h.pc = "json" /\ ~h.body.json
            unusable == /\ h.pc = "json"
                        /\ h.body.json
                        /\ \/ h.body.message.type # "string"
                           \/ sanitizeInput(h.body.message.value) = << >> IN
        /\ r.status \in {200, 400, 500}
        /\ r.status = 400 <=> unusable
        /\ r.status = 500 <=> fault
        /\ r.status = 400 => DOMAIN r.body = {"error"}
        /\ r.status = 200 => DOMAIN r.body = {"message", "fallback", "remaining"}

\* {message: "<script></script>"} has just been answered 400.
C14_Witness ==
    /\ resp # << >>
    /\ resp[1].request.pc = "json"
    /\ resp[1].request.body.json
    /\ resp[1].request.body.message.type = "string"
    /\ resp[1].request.body.message.value = Str_script
    /\ resp[1].response.status = 400

\* C15 as stated: every response of the POST endpoint, whatever its status,
\* carries a message field.
C15_EveryResponseHasMessage ==
    resp # << >> => "message" \in DOMAIN resp[1].response.body

\* C15 amended: every response of the POST endpoint with status 200 or 500
\* carries a non-empty message field; a response with status 400 carries an
\* error field and no message field.
C15_MessageUnlessRejected ==
    resp # << >> =>
        LET r == resp[1].response IN
        IF r.status = 400
        THEN DOMAIN r.body = {"error"} /\ r.body.error # ""
        ELSE "message" \in DOMAIN r.body /\ r.body.message # ""

\* A request whose body could not be read has just been answered 500 with a
\* message of the fallback pool.
C15_Witness ==
    /\ resp # << >>
    /\ resp[1].response.status = 500
    /\ \E i \in 1..Len(FALLBACK_RESPONSES) :
          resp[1].response.body.message = FALLBACK_RESPONSES[i]

\* C16: a POST response has fallback=false exactly when the upstream model was
\* called for the request and returned non-empty text, and its message is then
\* that text; every other response with a fallback field (quota exhausted, no
\* credential, upstream failure, internal fault) has fallback=true.
C16_FallbackIffGenerated ==
    [][resp' # << >> =>
        LET r == resp'[1].response IN
        IF r.status = 400
        THEN "fallback" \notin DOMAIN r.body
        ELSE r.body.fallback = FALSE
             <=> \E h \in BagToSet(handlers) : \E outcome \in UpstreamOutcomes :
                    /\ h.pc = "generate"
                    /\ outcome.kind = "text"
                    /\ outcome.text # ""
                    /\ PostUpstreamWith(h, outcome)
                    /\ resp'[1].request = h
                    /\ r.body.message = outcome.text]_vars

\* The text the upstream model generated has just been sent, fallback=false.
C16_Witness ==
    /\ resp # << >>
    /\ resp[1].request.pc = "generate"
    /\ resp[1].response.body.fallback = FALSE
    /\ resp[1].response.body.message = "Happy to help!"

\* C17: a request calls the upstream model at most once, and only if its
\* message passes validation and sanitization, its checkRateLimit call
\* returned allowed=true and a credential is configured: a step starts at most
\* one upstream call, the step that does is the resumption of a request with
\* those properties, and the invocation resumed after its upstream call
\* answers and ends, whatever the call came back with.
C17_SingleAttempt ==
    [][/\ Waiting(handlers') <= Waiting(handlers) + 1
       /\ Waiting(handlers') = Waiting(handlers) + 1
          => \E h \in BagToSet(handlers) :
                /\ h.pc = "json"
                /\ PostAfterJson(h)
                /\ UsableMessage(h)
                /\ last'.op = "check"
                /\ last'.ip = getClientIP(h.headers)
                /\ last'.allowed
                /\ apiKey # << >>
                /\ BagCardinality(handlers') = BagCardinality(handlers)
                /\ resp' = << >>
       /\ \A h \in BagToSet(handlers) :
            (h.pc = "generate" /\ PostUpstream(h))
            => /\ Waiting(handlers') = Waiting(handlers) - 1
               /\ handlers' = handlers (-) SetToBag({h})
               /\ resp' # << >>
               /\ resp'[1].request = h]_vars

\* The only request received has been answered after its upstream call failed,
\* and no call is under way.
C17_Witness ==
    /\ posts = 1
    /\ resp # << >>
    /\ resp[1].request.pc = "generate"
    /\ resp[1].response.body.fallback
    /\ handlers = EmptyBag

(* ================ claims about the helper functions ================== *)

\* C18 as stated: getClientIP returns the first entry of x-forwarded-for when
\* that header is present, else x-real-ip when that header is present, else
\* "unknown", whether the values are empty or not.
C18_FirstEntryWhenPresent ==
    last.op = "ip" =>
        last.ip = IF last.headers.forwarded # << >> THEN last.headers.forwarded[1]
                  ELSE IF last.headers.realIP # << >> THEN last.headers.realIP[1]
                  ELSE "unknown"

\* C18 amended: getClientIP returns the first entry of x-forwarded-for when
\* that header is present and the entry is not empty; otherwise x-real-ip when
\* that header is present and not empty; otherwise "unknown".
C18_FirstNonEmpty ==
    last.op = "ip" =>
        LET forwarded == last.headers.forwarded
            realIP    == last.headers.realIP IN
        last.ip = IF forwarded # << >> /\ forwarded[1] # "" THEN forwarded[1]
                  ELSE IF realIP # << >> /\ realIP[1] # "" THEN realIP[1]
                  ELSE "unknown"

\* A chain whose first entry is empty and whose second is an address has given
\* the value of x-real-ip.
C18_Witness ==
    /\ last.op = "ip"
    /\ last.headers.forwarded = <<"", "10.0.0.1">>
    /\ last.headers.realIP = <<"10.0.0.2">>
    /\ last.ip = "10.0.0.2"

\* C19: sanitizeInput returns a string without '<' and '>' of at most 1000
\* characters; an input of more than 1000 letters 'a', 2000 of them for one,
\* gives exactly 1000 letters 'a'.
C19_NoBracketsAtMost1000 ==
    last.op = "sanitize" =>
        /\ \A i \in 1..Len(last.output) : last.output[i] \notin {"<", ">"}
        /\ Len(last.output) <= 1000
        /\ (Len(last.input) > 1000 /\ \A i \in 1..Len(last.input) : last.input[i] = "a")
           => (Len(last.output) = 1000 /\ \A i \in 1..1000 : last.output[i] = "a")

\* 2000 letters 'a' have been cut to 1000.
C19_Witness ==
    /\ last.op = "sanitize"
    /\ Len(last.input) = 2000
    /\ \A i \in 1..2000 : last.input[i] = "a"
    /\ Len(last.output) = 1000

\* C20: the string sanitizeInput returns neither starts nor ends with a white
\* space character.
C20_ResultTrimmed ==
    (last.op = "sanitize" /\ last.output # << >>)
    => /\ last.output[1] \notin WhiteSpace
       /\ last.output[Len(last.output)] \notin WhiteSpace

\* The string s has no angle bracket.
NoBrackets(s) == \A i \in 1..Len(s) : s[i] \notin {"<", ">"}

\* C21: for a string without angle brackets of at most 1000 characters,
\* sanitizing twice gives what sanitizing once gives.
C21_IdempotentOnClean ==
    (last.op = "resanitize" /\ NoBrackets(last.input) /\ Len(last.input) <= 1000)
    => last.twice = last.once

\* A clean string of 1000 characters with blanks at both ends has been
\* sanitized twice.
C21_Witness ==
    /\ last.op = "resanitize"
    /\ Len(last.input) = 1000
    /\ last.input[1] = " "
    /\ NoBrackets(last.input)
    /\ Len(last.once) = 998
    /\ last.twice = last.once

\* 'hi  there'
Str_hiThere == <<"h", "i", " ", " ", "t", "h", "e", "r", "e">>

\* The opening tag <script>, in lower and in upper case.
OpeningTags == {OpenTag \o <<">">>, <<"<", "S", "C", "R", "I", "P", "T", ">">>}

\* C22: a <script>...</script> fragment of the trimmed input, in either case,
\* is removed with its content before the brackets are stripped: an input
\* that is bracket-free text, one fragment with bracket-free content and
\* bracket-free text again sanitizes to the two texts put together;
\* 'hi <script>alert(1)</script> there' gives 'hi  there'; and no result holds
\* the opening of a script fragment.
C22_ScriptsRemoved ==
    last.op = "sanitize" =>
        LET t == trim(last.input) IN
        /\ \A i \in 1..Len(t) : \A j \in 1..Len(t) :
              (/\ i + 8 <= j
               /\ j + 8 <= Len(t)
               /\ Len(t) <= 1000
               /\ SubSeq(t, i, i + 7) \in OpeningTags
               /\ SubSeq(t, j, j + 8) = CloseTag
               /\ NoBrackets(SubSeq(t, 1, i - 1))
               /\ NoBrackets(SubSeq(t, i + 8, j - 1))
               /\ NoBrackets(SubSeq(t, j + 9, Len(t))))
              => last.output = SubSeq(t, 1, i - 1) \o SubSeq(t, j + 9, Len(t))
        /\ last.input = Str_example => last.output = Str_hiThere
        /\ \A i \in 1..(Len(last.output) - 6) :
              SubSeq(last.output, i, i + 6) \notin {SubSeq(o, 1, 7) : o \in OpeningTags}

\* 'hi <script>alert(1)</script> there' has been sanitized to 'hi  there'.
C22_Witness ==
    /\ last.op = "sanitize"
    /\ last.input = Str_example
    /\ last.output = Str_hiThere

(* ================= further claims about the quota ==================== *)

\* C24: right after a checkRateLimit call made at time now, by whichever
\* caller and with whatever result, the store holds no record whose window has
\* expired (none with resetTime < now).
C24_NoExpiredRecordAfterCheck ==
    last.op = "check" => \A k \in DOMAIN store : store[k].resetTime >= now

\* The first request of a caller after the window of another caller expired
\* has deleted the record the other caller left with a single request.
C24_Witness ==
    /\ last.op = "check"
    /\ last.before = << >>
    /\ last.deleted # {}
    /\ last.ip \notin last.deleted
    /\ DOMAIN store = {last.ip}
    /\ store[last.ip].count = 1

\* The request of the invocation h carries neither x-forwarded-for nor
\* x-real-ip.
HeaderLess(h) == h.headers.forwarded = << >> /\ h.headers.realIP = << >>

\* C25: every request without the two headers that reaches the quota check is
\* checked against the record of "unknown", and once 50 such requests have
\* been allowed within one window the next one is rejected.
C25_HeaderLessShareUnknown ==
    [][\A h \in BagToSet(handlers) :
        (h.pc = "json" /\ HeaderLess(h) /\ UsableMessage(h) /\ PostAfterJson(h))
        => /\ last'.op = "check"
           /\ last'.ip = "unknown"
           /\ ("unknown" \in DOMAIN admitted /\ admitted["unknown"].count = 50)
              => /\ ~last'.allowed
                 /\ resp' # << >>
                 /\ resp'[1].response.body.message = LimitMessage
                 /\ admitted' = admitted
           /\ last'.allowed
              => /\ "unknown" \in DOMAIN admitted'
                 /\ store'["unknown"].count = admitted'["unknown"].count]_vars

\* A request without the two headers has been rejected after 50 such requests
\* were allowed in the running window, the last of them still waiting for the
\* upstream model.
C25_Witness ==
    /\ last.op = "check"
    /\ last.ip = "unknown"
    /\ ~last.allowed
    /\ resp # << >>
    /\ HeaderLess(resp[1].request)
    /\ "unknown" \in DOMAIN admitted
    /\ admitted["unknown"].count = 50
    /\ \E h \in BagToSet(handlers) : h.pc = "generate" /\ h.clientIP = "unknown"

\* C26: a POST answered with 400 has made no quota check: it leaves the store
\* as it was, expired records included, and counts for no caller.
C26_RejectedConsumesNothing ==
    [][\A h \in BagToSet(handlers) :
        (/\ h.pc = "json"
         /\ resp' # << >>
         /\ resp'[1].request = h
         /\ resp'[1].response.status = 400
         /\ PostAfterJson(h))
        => /\ store' = store
           /\ admitted' = admitted
           /\ last'.op # "check"]_vars

\* A caller with one request left has been answered 400 and still has it; a
\* record whose window has expired is still in the store.
C26_Witness ==
    /\ resp # << >>
    /\ resp[1].response.status = 400
    /\ LET ip == getClientIP(resp[1].request.headers) IN
       /\ ip \in DOMAIN store
       /\ store[ip].count = dailyLimit - 1
    /\ \E k \in DOMAIN store : now > store[k].resetTime

\* C27: a POST that passes validation and is allowed adds exactly one to its
\* caller's count, or opens a new window with count 1; the resumption after
\* the upstream call leaves the store alone whatever the call came back with;
\* and no step lowers the count of a record whose window is running.
C27_ConsumedNeverRefunded ==
    [][/\ \A h \in BagToSet(handlers) :
            (/\ h.pc = "json"
             /\ CopiesIn(h, handlers') < CopiesIn(h, handlers)
             /\ last'.op = "check"
             /\ last'.allowed
             /\ PostAfterJson(h))
            => LET before == MapGet(store, last'.ip) IN
               /\ last'.ip \in DOMAIN store'
               /\ store'[last'.ip].count =
                     IF before # << >> /\ now <= before[1].resetTime
                     THEN before[1].count + 1
                     ELSE 1
       /\ \A h \in BagToSet(handlers) :
            (h.pc = "generate" /\ PostUpstream(h)) => store' = store
       /\ \A k \in DOMAIN store :
            now' <= store[k].resetTime
            => /\ k \in DOMAIN store'
               /\ store'[k].count >= store[k].count]_vars

\* A caller's last request of the window has been answered with a fallback
\* after its upstream call failed, and the caller's count is at the limit.
C27_Witness ==
    /\ resp # << >>
    /\ resp[1].request.pc = "generate"
    /\ resp[1].response.body.fallback
    /\ resp[1].response.body.remaining = 0
    /\ resp[1].request.clientIP \in DOMAIN store
    /\ store[resp[1].request.clientIP].count = dailyLimit

\* C28: while a caller's record is unexpired no step (allowed request,
\* rejected request, GET) removes it or changes its resetTime; a resetTime is
\* set only by a checkRateLimit call that opens a window for its caller, to
\* the instant of that call plus 24 hours.
C28_WindowFixedByFirstRequest ==
    [][/\ \A k \in DOMAIN store :
            now' <= store[k].resetTime
            => /\ k \in DOMAIN store'
               /\ store'[k].resetTime = store[k].resetTime
       /\ \A k \in DOMAIN store' :
            (k \notin DOMAIN store \/ store'[k].resetTime # store[k].resetTime)
            => /\ IsCheckStep(k)
               /\ store'[k] = [count |-> 1, resetTime |-> now + WINDOW_MS]]_vars

\* A caller whose window opened at instant 0 has used it up and been rejected
\* a millisecond later; the window still ends 24 hours after instant 0.
C28_Witness ==
    /\ last.op = "check"
    /\ ~last.allowed
    /\ now = 1
    /\ store[last.ip].count = dailyLimit
    /\ store[last.ip].resetTime = WINDOW_MS

\* C29: a checkRateLimit or GET call for a caller changes no unexpired record
\* of another caller and creates no record for another caller, and the result
\* of the other caller's next checkRateLimit call, at whatever later instant,
\* and the record it leaves him are what they would have been without it.
C29_CallerIsolation ==
    [][\A a \in Callers :
        (IsCheckStep(a) \/ IsGetStep(a))
        => \A b \in Callers \ {a} :
              /\ (b \in DOMAIN store /\ now <= store[b].resetTime)
                 => (b \in DOMAIN store' /\ store'[b] = store[b])
              /\ b \notin DOMAIN store => b \notin DOMAIN store'
              /\ \A t \in LaterTimes :
                    LET without == checkRateLimit(store, b, t)
                        with    == checkRateLimit(store', b, t) IN
                    /\ with.allowed = without.allowed
                    /\ with.remaining = without.remaining
                    /\ with.store[b] = without.store[b]]_vars

\* A caller has made the first request of his window while another caller's
\* window, used up, is running: the other record is at the limit as before.
C29_Witness ==
    /\ last.op = "check"
    /\ last.before = << >>
    /\ last.allowed
    /\ store[last.ip].count = 1
    /\ \E b \in DOMAIN store \ {last.ip} :
          /\ store[b].count = dailyLimit
          /\ now <= store[b].resetTime
          /\ store[b].resetTime < store[last.ip].resetTime

(* ==================== claims about the browser side ================== *)

\* The texts the server sends as a message: generated text, the entries of
\* the fallback pool, the limit message.
ServerTexts ==
    {"Happy to help!", LimitMessage}
    \cup {FALLBACK_RESPONSES[i] : i \in 1..Len(FALLBACK_RESPONSES)}

\* C23 as stated: whatever the outcome of a send, the bot message appended is
\* the generated reply or one of the fixed strings of the server.
C23_ReplyIsServerText ==
    [][\A outcome \in SendOutcomes :
        FetchSettles(outcome)
        => LET bot == chat'.messages[Len(chat'.messages)] IN
           bot.sender = "bot" /\ bot.text \in ServerTexts]_vars

\* C23 amended: after a response that is ok the bot message appended is the
\* message of the response (the generated reply or a fixed string of the
\* server) with its fallback flag; after a 400, a 500 or a network failure it
\* is the fixed apology of the UI flagged as fallback, and the error line is
\* the fixed 'Connection error' text; no raw error text is shown.
C23_ReplyIsFixedOrGenerated ==
    [][\A outcome \in SendOutcomes :
        FetchSettles(outcome)
        => LET bot == chat'.messages[Len(chat'.messages)] IN
           /\ Len(chat'.messages) = Len(chat.messages) + 1
           /\ bot.sender = "bot"
           /\ ~chat'.isTyping
           /\ IF outcome.kind = "response" /\ outcome.response.status = 200
              THEN /\ bot.text = outcome.response.body.message
                   /\ bot.text \in ServerTexts
                   /\ bot.fallback = <<outcome.response.body.fallback>>
                   /\ chat'.error = << >>
              ELSE /\ bot.text = ConnectionTrouble
                   /\ bot.fallback = <<TRUE>>
                   /\ chat'.error = <<ConnectionError>>]_vars

\* After a generated reply to a first message, the second send has failed and
\* the apology of the UI has been appended.
C23_Witness ==
    /\ Len(chat.messages) = 5
    /\ chat.messages[3].text = "Happy to help!"
    /\ chat.messages[3].fallback = <<FALSE>>
    /\ chat.messages[5].text = ConnectionTrouble
    /\ chat.error = <<ConnectionError>>

\* C30: once no asynchronous call of AuthProvider is under way, clientData is
\* set only if user is set.
C30_ClientDataOnlyWithUser ==
    auth.calls = EmptyBag => (auth.clientData # << >> => auth.user # << >>)

====
